---- MODULE Spec2Model ----
(***************************************************************************)
(* Model of the hardware stress tool's orchestration: main() of            *)
(* stress_tool.py (worker start-up, the wait for the duration, cleanup,    *)
(* the SIGINT/SIGTERM handler), the Monitor thread of monitoring.py and    *)
(* the worker processes of stressors.py.                                   *)
(*                                                                         *)
(* Control of the main thread is a base position (pc) plus a stack of      *)
(* running cleanup() calls: Python runs a signal handler in the main       *)
(* thread between two bytecodes, on top of whatever the main thread was    *)
(* executing, so a handler's cleanup() is a new frame above the            *)
(* interrupted one.  An exception raised in the top frame (SystemExit from *)
(* sys.exit(0), RuntimeError from joining a thread that was never started) *)
(* unwinds every frame down to main's try/finally, if main is inside it.   *)
(*                                                                         *)
(* Time: `now` counts seconds from the end of start-up.  Code takes no     *)
(* time except where it blocks (time.sleep, Thread.join), so the clock     *)
(* advances only when the main thread and the monitor thread are blocked.  *)
(***************************************************************************)
EXTENDS Naturals, Integers, Sequences, FiniteSets, TLC

VARIABLES
    cfg,            \* the parsed command line (args, lines 50-54)
    pc,             \* position of main() below any signal handler
    stack,          \* running cleanup() calls, innermost last
    exc,            \* exception main() ends with ("none" when it returns)
    procs,          \* worker processes started, in start order
    appended,       \* how many of them are in the list `processes`
    temp_disk_file, \* whether temp_disk_file is set (not None)
    fileExists,     \* whether the scratch file exists in the file system
    stop_event,     \* main's stop_event
    mon_stop_event, \* Monitor._stop_event
    tpc,            \* position of the monitor thread
    wakeAt,         \* when the monitor thread's time.sleep(interval) ends
    stats,          \* Monitor.stats, the metric log
    now,            \* seconds since the end of start-up
    reported,       \* whether the exports / summary of lines 131-137 ran
    signals,        \* number of signals delivered so far
    firstSig,       \* history: where the first signal found main, and the log's length then
    cleanupCalls,   \* history: number of cleanup() calls begun
    cleanupReturns, \* history: number of cleanup() calls that reached line 75
    lenAtSet,       \* history: Len(stats) when _stop_event was first set (-1 before)
    stopSetAt,      \* history: `now` when stop_event was first set (-1 before)
    graph,          \* the live-graph thread: "none", "requested" or "running"
    readBeforeStop, \* history: the log was read before Monitor.stop() had returned
    samplerFailed,  \* history: a sampler (psutil) call raised in the monitor thread
    stressor,       \* one worker process seen from inside: its function, position and locals
    call            \* one call of a function looked at on its own: arguments, position, locals, outcome

vars == <<cfg, pc, stack, exc, procs, appended, temp_disk_file, fileExists,
          stop_event, mon_stop_event, tpc, wakeAt, stats, now, reported,
          signals, firstSig, cleanupCalls, cleanupReturns, lenAtSet, stopSetAt,
          graph, readBeforeStop, samplerFailed, stressor, call>>

\* ---------------------------------------------------------------- bounds
MaxDuration == 2
MaxInterval == 2
MaxSignals == 2
MaxWorkers == 1
MaxCpu == 3
MaxGb == 2
MaxSamples == 3
MaxPeers == 2
MaxOverrun == 1
MaxStreams == 2      \* streams of benchmark_concurrency
MaxIterations == 21  \* kernels of thermal_stress_test that take no measurable time
MaxTraffic == 3      \* changes of the network counters during the sampling

\* ------------------------------------------------------------ configuration
\* The values main() reads from the command line (lines 38-54).
\* main() only tests whether a size is > 0 (lines 92, 98).
Configs ==
    [cpu_workers : 0..MaxWorkers, mem_gb : {0, 1}, disk_gb : {0, 1},
     network_url : BOOLEAN, gpu : BOOLEAN,
     duration : 1..MaxDuration, monitor_interval : 1..MaxInterval]

\* Every combination of worker kinds, for the start-up on its own: sizes are
\* whole GB (the value parse_size returns).
WideConfigs ==
    [cpu_workers : 0..MaxCpu, mem_gb : 0..MaxGb, disk_gb : 0..MaxGb,
     network_url : BOOLEAN, gpu : BOOLEAN,
     duration : 1..MaxDuration, monitor_interval : 1..MaxInterval]

\* Mutant: a memory worker is started whatever the memory size is.
Plan_MemoryAlways(c) ==
    [i \in 1..c.cpu_workers |-> "cpu"]
    \o <<"memory">>
    \o (IF c.disk_gb > 0 THEN <<"disk">> ELSE <<>>)
    \o (IF c.network_url THEN <<"network">> ELSE <<>>)
    \o (IF c.gpu THEN <<"gpu">> ELSE <<>>)

\* The workers main() starts, in the order of lines 85-114.
Plan(c) ==
    [i \in 1..c.cpu_workers |-> "cpu"]
    \o (IF c.mem_gb > 0 THEN <<"memory">> ELSE <<>>)
    \o (IF c.disk_gb > 0 THEN <<"disk">> ELSE <<>>)
    \o (IF c.network_url THEN <<"network">> ELSE <<>>)
    \o (IF c.gpu THEN <<"gpu">> ELSE <<>>)

\* The configurations explored: those that start at most MaxWorkers workers.
BoundedConfigs == {c \in Configs : Len(Plan(c)) <= MaxWorkers}

\* A multiprocessing.Process after p.start().
NewProcess(kind) == [kind |-> kind, alive |-> TRUE, terms |-> 0, fopen |-> FALSE]

\* A cleanup() call about to execute line 65; site is its caller.
NewFrame(site) == [site |-> site, cpc |-> "monitor_stop"]

\* firstSig before any signal.
NoSignal == [pc |-> "none", len |-> 0]

\* No worker process is looked at from inside.
NoStressor == [kind |-> "none"]

\* No function call is looked at on its own.
NoCall == [fn |-> "none"]

\* The state of main() before it starts the first worker (lines 56-62).
Fresh ==
    /\ pc = "spawn"
    /\ stack = <<>>
    /\ exc = "none"
    /\ procs = <<>>
    /\ appended = 0
    /\ temp_disk_file = FALSE
    /\ fileExists = FALSE
    /\ stop_event = FALSE
    /\ mon_stop_event = FALSE
    /\ tpc = "idle"
    /\ wakeAt = 0
    /\ stats = <<>>
    /\ now = 0
    /\ reported = FALSE
    /\ signals = 0
    /\ firstSig = NoSignal
    /\ cleanupCalls = 0
    /\ cleanupReturns = 0
    /\ lenAtSet = -1
    /\ stopSetAt = -1
    /\ readBeforeStop = FALSE
    /\ samplerFailed = FALSE
    /\ stressor = NoStressor
    /\ call = NoCall

Init ==
    /\ cfg \in BoundedConfigs
    /\ graph = "none"
    /\ Fresh

Top == stack[Len(stack)]
SetTop(f) == [stack EXCEPT ![Len(stack)] = f]

historyVars == <<signals, firstSig, cleanupCalls, cleanupReturns, lenAtSet, stopSetAt>>
monitorVars == <<mon_stop_event, tpc, wakeAt, stats>>
workerVars == <<procs, appended, temp_disk_file, fileExists>>
graphVars == <<graph, readBeforeStop>>
faultVars == <<samplerFailed, stressor, call>>

\* ------------------------------------------------------------------ start-up
\* p = multiprocessing.Process(...); p.start()   (lines 87-88, 93-94, 99-101,
\* 106-107, 112-113).  temp_disk_file is assigned just before the disk worker
\* is started (line 99).
SpawnStart ==
    /\ pc = "spawn" /\ stack = <<>>
    /\ Len(procs) = appended
    /\ appended < Len(Plan(cfg))
    /\ LET kind == Plan(cfg)[appended + 1] IN
         /\ procs' = Append(procs, NewProcess(kind))
         /\ temp_disk_file' = (temp_disk_file \/ kind = "disk")
    /\ UNCHANGED <<cfg, pc, stack, exc, appended, fileExists, stop_event,
                   now, reported>>
    /\ UNCHANGED monitorVars
    /\ UNCHANGED historyVars
    /\ UNCHANGED graphVars
    /\ UNCHANGED faultVars

\* processes.append(p)   (lines 89, 95, 102, 108, 114)
SpawnAppend ==
    /\ pc = "spawn" /\ stack = <<>>
    /\ Len(procs) > appended
    /\ appended' = appended + 1
    /\ UNCHANGED <<cfg, pc, stack, exc, procs, temp_disk_file, fileExists,
                   stop_event, now, reported>>
    /\ UNCHANGED monitorVars
    /\ UNCHANGED historyVars
    /\ UNCHANGED graphVars
    /\ UNCHANGED faultVars

\* monitor.start(): Thread.start() of the monitor thread   (lines 117, 33-34)
MonitorStart ==
    /\ pc = "spawn" /\ stack = <<>>
    /\ appended = Len(Plan(cfg))
    /\ tpc' = "check"
    /\ pc' = "live_graph"
    /\ UNCHANGED <<cfg, stack, exc, stop_event, now, reported,
                   mon_stop_event, wakeAt, stats>>
    /\ UNCHANGED workerVars
    /\ UNCHANGED historyVars
    /\ UNCHANGED graphVars
    /\ UNCHANGED faultVars

\* Lines 119-126: with --live-graph the daemon thread that runs
\* monitor.live_graph is started; then main enters the try block and
\* time.sleep(duration).
EnterWait ==
    /\ pc = "live_graph" /\ stack = <<>>
    /\ pc' = "sleep"
    /\ graph' = IF graph = "requested" THEN "running" ELSE graph
    /\ UNCHANGED <<cfg, stack, exc, stop_event, now, reported, readBeforeStop>>
    /\ UNCHANGED monitorVars
    /\ UNCHANGED workerVars
    /\ UNCHANGED historyVars
    /\ UNCHANGED faultVars

\* ------------------------------------------------------------ the wait
\* Mutant: the wait also ends as soon as some worker has ended.
DeadlineReached_OrWorkerEnded ==
    now >= cfg.duration \/ \E i \in 1..Len(procs) : ~procs[i].alive

\* time.sleep(duration) returns when the duration has elapsed and for no
\* other reason (line 126).
DeadlineReached == now >= cfg.duration

\* The finally block calls cleanup()   (lines 129-130).
Deadline ==
    /\ pc = "sleep" /\ stack = <<>>
    /\ DeadlineReached
    /\ pc' = "finally"
    /\ stack' = <<NewFrame("finally")>>
    /\ cleanupCalls' = cleanupCalls + 1
    /\ UNCHANGED <<cfg, exc, stop_event, now, reported,
                   signals, firstSig, cleanupReturns, lenAtSet, stopSetAt>>
    /\ UNCHANGED monitorVars
    /\ UNCHANGED workerVars
    /\ UNCHANGED graphVars
    /\ UNCHANGED faultVars

\* ------------------------------------------------------------ signals
\* SIGINT or SIGTERM is delivered while main() runs: signal_handler is called
\* on top of what the main thread is executing, prints and calls cleanup()
\* (lines 77-79).  Both signals are bound to the same handler (lines 82-83).
Signal ==
    /\ pc \notin {"atexit", "exited"}
    /\ signals < MaxSignals
    /\ signals' = signals + 1
    /\ firstSig' = IF signals = 0 THEN [pc |-> pc, len |-> Len(stats)] ELSE firstSig
    /\ stack' = Append(stack, NewFrame("handler"))
    /\ cleanupCalls' = cleanupCalls + 1
    /\ UNCHANGED <<cfg, pc, exc, stop_event, now, reported,
                   cleanupReturns, lenAtSet, stopSetAt>>
    /\ UNCHANGED monitorVars
    /\ UNCHANGED workerVars
    /\ UNCHANGED graphVars
    /\ UNCHANGED faultVars

\* An exception e leaves the innermost cleanup().  Nothing between it and
\* main() catches it (the only except clause in cleanup is around os.remove,
\* and sys.exit raises SystemExit, which is no Exception), so every frame is
\* unwound.  If main is in the try block (line 126) the finally block runs and
\* calls cleanup(); if main is already in the finally block, or not yet in the
\* try block, main() ends with e.
Raise(e) ==
    /\ exc' = e
    /\ IF pc = "sleep"
         THEN /\ pc' = "finally"
              /\ stack' = <<NewFrame("finally")>>
              /\ cleanupCalls' = cleanupCalls + 1
         ELSE /\ pc' = "atexit"
              /\ stack' = <<>>
              /\ cleanupCalls' = cleanupCalls

\* ------------------------------------------------------------------ cleanup
\* cleanup() line 65, monitor.stop() line 37: self._stop_event.set()
CleanupMonitorStop ==
    /\ stack # <<>> /\ Top.cpc = "monitor_stop"
    /\ mon_stop_event' = TRUE
    /\ lenAtSet' = IF lenAtSet = -1 THEN Len(stats) ELSE lenAtSet
    /\ stack' = SetTop([Top EXCEPT !.cpc = "monitor_join"])
    /\ UNCHANGED <<cfg, pc, exc, stop_event, tpc, wakeAt, stats, now, reported,
                   signals, firstSig, cleanupCalls, cleanupReturns, stopSetAt>>
    /\ UNCHANGED workerVars
    /\ UNCHANGED graphVars
    /\ UNCHANGED faultVars

\* Mutant: join returns without waiting for the thread to end.
JoinReturns_NoWait == tpc # "idle"

\* Thread.join() of a started thread returns once the thread has ended (line 38).
JoinReturns == tpc = "done"

\* monitor.stop() line 38: self.thread.join(), which raises RuntimeError
\* ("cannot join thread before it is started") when monitor.start() has not
\* run yet; then stop_event.set() (line 66).
CleanupMonitorJoin ==
    /\ stack # <<>> /\ Top.cpc = "monitor_join"
    /\ IF tpc = "idle"
         THEN /\ Raise("RuntimeError")
              /\ UNCHANGED <<stop_event, stopSetAt>>
         ELSE /\ JoinReturns
              /\ stop_event' = TRUE
              /\ stopSetAt' = IF stopSetAt = -1 THEN now ELSE stopSetAt
              /\ stack' = SetTop([Top EXCEPT !.cpc = "terminate"])
              /\ UNCHANGED <<pc, exc, cleanupCalls>>
    /\ UNCHANGED <<cfg, now, reported, signals, firstSig, cleanupReturns, lenAtSet>>
    /\ UNCHANGED monitorVars
    /\ UNCHANGED workerVars
    /\ UNCHANGED graphVars
    /\ UNCHANGED faultVars

\* `for p in processes: if p.is_alive(): p.terminate()`   (lines 67-69).
\* terminate() sends SIGTERM and does not wait for the process to end.
CleanupTerminate ==
    /\ stack # <<>> /\ Top.cpc = "terminate"
    /\ procs' = [i \in 1..Len(procs) |->
                   IF i <= appended /\ procs[i].alive
                     THEN [procs[i] EXCEPT !.terms = @ + 1]
                     ELSE procs[i]]
    /\ stack' = SetTop([Top EXCEPT !.cpc = "remove"])
    /\ UNCHANGED <<cfg, pc, exc, appended, temp_disk_file, fileExists,
                   stop_event, now, reported>>
    /\ UNCHANGED monitorVars
    /\ UNCHANGED historyVars
    /\ UNCHANGED graphVars
    /\ UNCHANGED faultVars

\* Whether the scratch file exists after lines 70-74: os.remove is called if
\* temp_disk_file is set and the file exists.  It unlinks the file, or, where
\* the platform refuses to delete a file that a live process holds open, raises
\* an error that lines 73-74 swallow.
AfterRemove ==
    IF temp_disk_file /\ fileExists
      THEN IF \E i \in 1..Len(procs) : procs[i].alive /\ procs[i].fopen
             THEN {TRUE, FALSE}
             ELSE {FALSE}
      ELSE {fileExists}

\* After the loop: the scratch file is removed (lines 70-74), cleanup prints
\* and returns (line 75).  In the signal handler sys.exit(0) follows (line 80);
\* in the finally block the exports and the summary follow (lines 131-137).
CleanupFinish ==
    /\ stack # <<>> /\ Top.cpc = "remove"
    /\ fileExists' \in AfterRemove
    /\ cleanupReturns' = cleanupReturns + 1
    /\ IF Top.site = "handler"
         THEN Raise("SystemExit")
         ELSE /\ pc' = "report"
              /\ stack' = <<>>
              /\ UNCHANGED <<exc, cleanupCalls>>
    /\ UNCHANGED <<cfg, procs, appended, temp_disk_file, stop_event, now,
                   reported, signals, firstSig, lenAtSet, stopSetAt>>
    /\ UNCHANGED monitorVars
    /\ UNCHANGED graphVars
    /\ UNCHANGED faultVars

\* ------------------------------------------------------------ end of main()
\* Monitor.stop() has returned at least once: line 66 (stop_event.set()) is
\* what cleanup() executes right after monitor.stop() returns, and nothing
\* else sets stop_event.
MonitorStopReturned == stop_event

\* export_csv / export_json / print_summary   (lines 131-137); each of them
\* reads Monitor.stats.
Report ==
    /\ pc = "report" /\ stack = <<>>
    /\ reported' = TRUE
    /\ readBeforeStop' = (readBeforeStop \/ ~MonitorStopReturned)
    /\ pc' = "atexit"
    /\ UNCHANGED <<cfg, stack, exc, stop_event, now, graph>>
    /\ UNCHANGED monitorVars
    /\ UNCHANGED workerVars
    /\ UNCHANGED historyVars
    /\ UNCHANGED faultVars

\* main() has ended (line 140).  The workers are non-daemon processes, so the
\* interpreter joins every one of them before the program exits.
ProgramExit ==
    /\ pc = "atexit"
    /\ \A i \in 1..Len(procs) : ~procs[i].alive
    /\ pc' = "exited"
    /\ UNCHANGED <<cfg, stack, exc, stop_event, now, reported>>
    /\ UNCHANGED monitorVars
    /\ UNCHANGED workerVars
    /\ UNCHANGED historyVars
    /\ UNCHANGED graphVars
    /\ UNCHANGED faultVars

\* ------------------------------------------------------------ monitor thread
\* Mutant: the loop never looks at the stop event.
LoopContinues_IgnoresStop == TRUE

\* `while not self._stop_event.is_set()`   (line 21)
LoopContinues == ~mon_stop_event

\* The loop condition is evaluated when the thread starts and each time
\* time.sleep(self.interval) has ended (lines 21, 31).
MonitorCheck ==
    /\ pc # "exited"
    /\ tpc = "check" \/ (tpc = "sleep" /\ now >= wakeAt)
    /\ tpc' = IF LoopContinues THEN "sample" ELSE "done"
    /\ UNCHANGED <<cfg, pc, stack, exc, stop_event, now, reported,
                   mon_stop_event, wakeAt, stats>>
    /\ UNCHANGED workerVars
    /\ UNCHANGED historyVars
    /\ UNCHANGED graphVars
    /\ UNCHANGED faultVars

\* Seconds in a day: '%H:%M:%S' keeps the time of day only (line 23).
SecondsPerDay == 86400

\* The MB in a GB, as parse_size counts them (line 30).
MbPerGb == 1024

\* thermal_stress_test keeps one sample every 10 iterations (line 226).
SampleEvery == 10

\* time.strftime('%H:%M:%S') at clock reading t, as seconds since midnight
\* (strings of this format order as these numbers do).
Clock(t) == t % SecondsPerDay

\* Mutant: the new sample is put in front of the log.
AddSample_Prepend(log, s) == <<s>> \o log

\* Mutant: the new sample is appended twice.
AddSample_Twice(log, s) == Append(Append(log, s), s)

\* self.stats.append(stat)   (line 30)
AddSample(log, s) == Append(log, s)

\* One sample is taken and appended, then the thread sleeps (lines 22-31).
MonitorSample ==
    /\ pc # "exited"
    /\ tpc = "sample"
    /\ stats' = AddSample(stats, [time |-> Clock(now)])
    /\ wakeAt' = now + cfg.monitor_interval
    /\ tpc' = "sleep"
    /\ UNCHANGED <<cfg, pc, stack, exc, stop_event, now, reported, mon_stop_event>>
    /\ UNCHANGED workerVars
    /\ UNCHANGED historyVars
    /\ UNCHANGED graphVars
    /\ UNCHANGED faultVars

\* ------------------------------------------------------------ workers
\* A worker that was sent SIGTERM dies, some time after terminate() returned.
WorkerDie ==
    \E i \in 1..Len(procs) :
        /\ procs[i].alive /\ procs[i].terms > 0
        /\ procs' = [procs EXCEPT ![i].alive = FALSE]
        /\ UNCHANGED <<cfg, pc, stack, exc, appended, temp_disk_file,
                       fileExists, stop_event, now, reported>>
        /\ UNCHANGED monitorVars
        /\ UNCHANGED historyVars
        /\ UNCHANGED graphVars
        /\ UNCHANGED faultVars

\* Mutant: a worker that ends takes every other worker down with it.
AfterExit_KillsAll(ps, i) == [j \in 1..Len(ps) |-> [ps[j] EXCEPT !.alive = FALSE]]

\* The processes after worker i has ended: each worker is a process of its own
\* (multiprocessing.Process, lines 87-113), so only worker i is gone.
AfterExit(ps, i) == [ps EXCEPT ![i].alive = FALSE]

\* Mutant: burn_memory returns once its blocks are allocated.
ExitsOnItsOwn_MemoryReturns(p) ==
    \/ p.kind = "network" /\ now >= cfg.duration
    \/ p.kind \in {"gpu", "memory"}

\* The workers that can end without being terminated: see WorkerExit.
ExitsOnItsOwn(p) ==
    \/ p.kind = "network" /\ now >= cfg.duration
    \/ p.kind = "gpu"

\* A worker ends on its own: burn_network returns when its duration, counted
\* from its start, has elapsed (lines 43-44); burn_gpu returns after its run or
\* ends with the exception its fallback path raises (lines 58-99).  burn_cpu,
\* burn_memory and burn_disk never return (lines 14-40).
WorkerExit ==
    \E i \in 1..Len(procs) :
        /\ procs[i].alive
        /\ ExitsOnItsOwn(procs[i])
        /\ procs' = AfterExit(procs, i)
        /\ UNCHANGED <<cfg, pc, stack, exc, appended, temp_disk_file,
                       fileExists, stop_event, now, reported>>
        /\ UNCHANGED monitorVars
        /\ UNCHANGED historyVars
        /\ UNCHANGED graphVars
        /\ UNCHANGED faultVars

\* burn_disk opens the scratch file for writing, which creates it (line 32).
DiskOpen ==
    \E i \in 1..Len(procs) :
        /\ procs[i].alive /\ procs[i].kind = "disk" /\ ~procs[i].fopen
        /\ procs' = [procs EXCEPT ![i].fopen = TRUE]
        /\ fileExists' = TRUE
        /\ UNCHANGED <<cfg, pc, stack, exc, appended, temp_disk_file,
                       stop_event, now, reported>>
        /\ UNCHANGED monitorVars
        /\ UNCHANGED historyVars
        /\ UNCHANGED graphVars
        /\ UNCHANGED faultVars

\* ------------------------------------------------------------ time
\* The main thread is blocked in time.sleep(duration) or in Thread.join().
MainBlocked ==
    \/ pc = "sleep" /\ stack = <<>> /\ ~DeadlineReached
    \/ stack # <<>> /\ Top.cpc = "monitor_join" /\ tpc # "idle" /\ ~JoinReturns

\* The monitor thread is not running, or is inside time.sleep(self.interval).
ThreadBlocked ==
    \/ tpc \in {"idle", "done"}
    \/ tpc = "sleep" /\ now < wakeAt

\* One second passes.
Tick ==
    /\ MainBlocked /\ ThreadBlocked
    /\ now' = now + 1
    /\ UNCHANGED <<cfg, pc, stack, exc, stop_event, reported>>
    /\ UNCHANGED monitorVars
    /\ UNCHANGED workerVars
    /\ UNCHANGED historyVars
    /\ UNCHANGED graphVars
    /\ UNCHANGED faultVars

\* ------------------------------------------------------------ live graph
\* update() of live_graph, called by the animation timer in the graph thread
\* (lines 80-91, 93): it reads self.stats.  The thread is a daemon, so it runs
\* until the process exits; nothing stops it in cleanup().
GraphUpdate ==
    /\ graph = "running" /\ pc # "exited"
    /\ readBeforeStop' = (readBeforeStop \/ ~MonitorStopReturned)
    /\ UNCHANGED <<cfg, pc, stack, exc, stop_event, now, reported, graph>>
    /\ UNCHANGED monitorVars
    /\ UNCHANGED workerVars
    /\ UNCHANGED historyVars
    /\ UNCHANGED faultVars

Next ==
    \/ SpawnStart \/ SpawnAppend \/ MonitorStart \/ EnterWait
    \/ Deadline \/ Signal
    \/ CleanupMonitorStop \/ CleanupMonitorJoin \/ CleanupTerminate \/ CleanupFinish
    \/ Report \/ ProgramExit
    \/ MonitorCheck \/ MonitorSample
    \/ WorkerDie \/ WorkerExit \/ DiskOpen
    \/ Tick

\* Runs of the tool without --live-graph.
Spec == Init /\ [][Next]_vars

\* Runs of the tool with --live-graph.
InitGraph ==
    /\ cfg \in BoundedConfigs
    /\ graph = "requested"
    /\ Fresh

NextGraph == Next \/ GraphUpdate

SpecGraph == InitGraph /\ [][NextGraph]_vars

\* The start-up of main() (lines 85-117) for every combination of worker
\* kinds, with no signal delivered during it.
InitStartup ==
    /\ cfg \in WideConfigs
    /\ graph = "none"
    /\ Fresh

NextStartup == SpawnStart \/ SpawnAppend \/ MonitorStart

SpecStartup == InitStartup /\ [][NextStartup]_vars

\* Runs of the tool to the deadline with up to MaxPeers workers side by side;
\* no signal is delivered.
PeerConfigs ==
    {c \in [cpu_workers : 0..MaxPeers, mem_gb : {0, 1}, disk_gb : {0, 1},
            network_url : BOOLEAN, gpu : BOOLEAN,
            duration : 1..MaxDuration, monitor_interval : 1..MaxInterval] :
        Len(Plan(c)) <= MaxPeers}

InitPeers ==
    /\ cfg \in PeerConfigs
    /\ graph = "none"
    /\ Fresh

NextPeers ==
    \/ SpawnStart \/ SpawnAppend \/ MonitorStart \/ EnterWait
    \/ Deadline
    \/ CleanupMonitorStop \/ CleanupMonitorJoin \/ CleanupTerminate \/ CleanupFinish
    \/ Report \/ ProgramExit
    \/ MonitorCheck \/ MonitorSample
    \/ WorkerDie \/ WorkerExit \/ DiskOpen
    \/ Tick

SpecPeers == InitPeers /\ [][NextPeers]_vars

\* ------------------------------------------------------ a Monitor on its own
\* A Monitor object driven by a caller that calls start() and stop() in any
\* order, any number of times.  Here `now` is the reading of the wall clock,
\* and the Monitor is created at any time of day.  pc is the caller's
\* position, exc the outcome of its last call.

\* Clock readings at which the Monitor is created: midnight, noon, one second
\* before midnight.
StartTimes == {0, SecondsPerDay \div 2, SecondsPerDay - 1}

\* Monitor(interval=monitor_interval): nothing else of the command line matters.
MonitorConfigs == {c \in BoundedConfigs : Len(Plan(c)) = 0 /\ c.duration = 1}

\* Monitor.__init__ (lines 13-18): empty log, event clear, thread not started.
InitMonitor ==
    /\ cfg \in MonitorConfigs
    /\ now \in StartTimes
    /\ pc = "caller" /\ stack = <<>> /\ exc = "none"
    /\ procs = <<>> /\ appended = 0
    /\ temp_disk_file = FALSE /\ fileExists = FALSE
    /\ stop_event = FALSE /\ mon_stop_event = FALSE
    /\ tpc = "idle" /\ wakeAt = 0 /\ stats = <<>>
    /\ reported = FALSE
    /\ signals = 0 /\ firstSig = NoSignal
    /\ cleanupCalls = 0 /\ cleanupReturns = 0
    /\ lenAtSet = -1 /\ stopSetAt = -1
    /\ graph = "none" /\ readBeforeStop = FALSE
    /\ samplerFailed = FALSE /\ stressor = NoStressor /\ call = NoCall

\* The caller calls start() or stop() next.
Call ==
    /\ pc = "caller"
    /\ pc' \in {"start", "stop"}
    /\ UNCHANGED <<cfg, stack, exc, stop_event, now, reported>>
    /\ UNCHANGED monitorVars
    /\ UNCHANGED workerVars
    /\ UNCHANGED historyVars
    /\ UNCHANGED graphVars
    /\ UNCHANGED faultVars

\* Mutant: a thread that has ended can be started again.
ThreadStartable_Restart == tpc \in {"idle", "done"}

\* Thread.start() starts a thread that was never started, and raises
\* RuntimeError ("threads can only be started once") otherwise.
ThreadStartable == tpc = "idle"

\* Monitor.start(): self.thread.start()   (lines 33-34); the one Thread object
\* is created in __init__ (line 17).
Start ==
    /\ pc = "start"
    /\ pc' = "caller"
    /\ IF ThreadStartable
         THEN /\ tpc' = "check"
              /\ exc' = "none"
         ELSE /\ tpc' = tpc
              /\ exc' = "RuntimeError"
    /\ UNCHANGED <<cfg, stack, stop_event, now, reported,
                   mon_stop_event, wakeAt, stats>>
    /\ UNCHANGED workerVars
    /\ UNCHANGED historyVars
    /\ UNCHANGED graphVars
    /\ UNCHANGED faultVars

\* Monitor.stop(), line 37: self._stop_event.set()
StopSet ==
    /\ pc = "stop"
    /\ pc' = "join"
    /\ mon_stop_event' = TRUE
    /\ UNCHANGED <<cfg, stack, exc, stop_event, now, reported, tpc, wakeAt, stats>>
    /\ UNCHANGED workerVars
    /\ UNCHANGED historyVars
    /\ UNCHANGED graphVars
    /\ UNCHANGED faultVars

\* Monitor.stop(), line 38: self.thread.join() raises RuntimeError if the
\* thread was never started, and returns once the thread has ended otherwise.
StopJoin ==
    /\ pc = "join"
    /\ tpc = "idle" \/ JoinReturns
    /\ pc' = "caller"
    /\ exc' = IF tpc = "idle" THEN "RuntimeError" ELSE "none"
    /\ UNCHANGED <<cfg, stack, stop_event, now, reported>>
    /\ UNCHANGED monitorVars
    /\ UNCHANGED workerVars
    /\ UNCHANGED historyVars
    /\ UNCHANGED graphVars
    /\ UNCHANGED faultVars

\* One second passes while the monitor thread is inside
\* time.sleep(self.interval).  The runs explored take up to MaxSamples samples
\* before stop() is called.
MonitorTick ==
    /\ tpc = "sleep" /\ now < wakeAt
    /\ Len(stats) < MaxSamples \/ mon_stop_event
    /\ now' = now + 1
    /\ UNCHANGED <<cfg, pc, stack, exc, stop_event, reported>>
    /\ UNCHANGED monitorVars
    /\ UNCHANGED workerVars
    /\ UNCHANGED historyVars
    /\ UNCHANGED graphVars
    /\ UNCHANGED faultVars

NextMonitor ==
    \/ Call \/ Start \/ StopSet \/ StopJoin
    \/ MonitorCheck \/ MonitorSample
    \/ MonitorTick

SpecMonitor == InitMonitor /\ [][NextMonitor]_vars

\* A sampler call of lines 22-29 (psutil.cpu_percent, virtual_memory,
\* disk_usage, net_io_counters) raises.  Nothing in _monitor_loop catches it:
\* the exception ends the monitor thread before the append of line 30; the
\* other threads go on.
SampleFails ==
    /\ pc # "exited"
    /\ tpc = "sample"
    /\ tpc' = "done"
    /\ samplerFailed' = TRUE
    /\ UNCHANGED <<cfg, pc, stack, exc, stop_event, now, reported,
                   mon_stop_event, wakeAt, stats, stressor, call>>
    /\ UNCHANGED workerVars
    /\ UNCHANGED historyVars
    /\ UNCHANGED graphVars

\* A Monitor on its own whose sampler calls can fail.
NextMonitorFault == NextMonitor \/ SampleFails

SpecMonitorFault == InitMonitor /\ [][NextMonitorFault]_vars

\* p.start() raises (the operating system cannot create the process: OSError).
\* main() is not yet in its try block and catches nothing here, so main() ends
\* with the error: no further worker and no monitor is started, and cleanup()
\* is not called.
SpawnFails ==
    /\ pc = "spawn" /\ stack = <<>>
    /\ Len(procs) = appended
    /\ appended < Len(Plan(cfg))
    /\ exc' = "OSError"
    /\ pc' = "atexit"
    /\ UNCHANGED <<cfg, stack, stop_event, now, reported>>
    /\ UNCHANGED monitorVars
    /\ UNCHANGED workerVars
    /\ UNCHANGED historyVars
    /\ UNCHANGED graphVars
    /\ UNCHANGED faultVars

\* The start-up of main() when starting a worker can fail.
NextStartFault == NextStartup \/ SpawnFails

SpecStartFault == InitStartup /\ [][NextStartFault]_vars

\* ------------------------------------------------ a worker seen from inside
\* One worker process executing its stressor function (stressors.py), from
\* the call that main() makes (lines 87, 93, 100, 106, 112) on.  `now` counts
\* seconds from the start of the worker.  The parent's terminate() is not
\* part of these runs: they show what the worker does when left alone.

\* One worker of a kind other than CPU is requested.
StressorConfigs ==
    {c \in WideConfigs :
        Len(Plan(c)) = 1 /\ Plan(c)[1] # "cpu" /\ c.monitor_interval = 1}

\* The size argument of burn_memory(mem_gb) / burn_disk(path, disk_gb).
SizeArg(c) == IF c.mem_gb > 0 THEN c.mem_gb ELSE c.disk_gb

\* Where the stressor function begins.
StartPc(kind) ==
    CASE kind = "memory" -> "alloc"
      [] kind = "disk" -> "open"
      [] kind = "network" -> "net_start"
      [] kind = "gpu" -> "gpu_start"

\* The worker at the start of its function.  target is how the URL's server
\* behaves ("flaky": every request is answered or fails; "silent": no request
\* is ever answered); has_pycuda is HAS_PYCUDA (lines 5-12).
NewStressor(c, target, has_pycuda) ==
    [kind |-> Plan(c)[1], pc |-> StartPc(Plan(c)[1]),
     size |-> SizeArg(c), duration |-> c.duration,
     blocks |-> 0, failed_at |-> 0, printed |-> FALSE,
     end_time |-> 0, sent_at |-> 0, failures |-> 0,
     target |-> target, has_pycuda |-> has_pycuda]

InitStressor ==
    /\ cfg \in StressorConfigs
    /\ stressor \in
          {NewStressor(cfg, t, h) :
              t \in (IF Plan(cfg)[1] = "network" THEN {"flaky", "silent"} ELSE {"none"}),
              h \in (IF Plan(cfg)[1] = "gpu" THEN BOOLEAN ELSE {FALSE})}
    /\ pc = "worker" /\ stack = <<>> /\ exc = "none"
    /\ procs = <<>> /\ appended = 0
    /\ temp_disk_file = FALSE /\ fileExists = FALSE
    /\ stop_event = FALSE /\ mon_stop_event = FALSE
    /\ tpc = "idle" /\ wakeAt = 0 /\ stats = <<>> /\ now = 0
    /\ reported = FALSE
    /\ signals = 0 /\ firstSig = NoSignal
    /\ cleanupCalls = 0 /\ cleanupReturns = 0
    /\ lenAtSet = -1 /\ stopSetAt = -1
    /\ graph = "none" /\ readBeforeStop = FALSE
    /\ samplerFailed = FALSE /\ call = NoCall

\* What a step of the worker leaves alone: everything of the parent process.
ParentUnchanged ==
    /\ UNCHANGED <<cfg, pc, stack, exc, stop_event, reported, samplerFailed, call>>
    /\ UNCHANGED monitorVars
    /\ UNCHANGED workerVars
    /\ UNCHANGED historyVars
    /\ UNCHANGED graphVars

\* The worker moves to position p; time does not pass.
Goto(p) ==
    /\ stressor' = [stressor EXCEPT !.pc = p]
    /\ UNCHANGED now
    /\ ParentUnchanged

\* ---- burn_memory (lines 18-28)
\* blocks.append(bytearray(1 GiB)) succeeds   (lines 21-22); after the last
\* block the worker sleeps for ever (lines 23-24).
AllocBlock ==
    /\ stressor.kind = "memory" /\ stressor.pc = "alloc"
    /\ stressor.blocks < stressor.size
    /\ stressor' = [stressor EXCEPT
                      !.blocks = @ + 1,
                      !.pc = IF stressor.blocks + 1 = stressor.size
                               THEN "hold" ELSE "alloc"]
    /\ UNCHANGED now
    /\ ParentUnchanged

\* Mutant: the blocks allocated so far are released when an allocation fails.
BlocksAfterFailure_Released(b) == 0

\* The except clause (lines 25-28) leaves the local list `blocks` untouched,
\* and the function never returns, so the list stays referenced.
BlocksAfterFailure(b) == b

\* bytearray(1 GiB) raises MemoryError at the k-th block, k = blocks + 1
\* (line 22); the except clause of line 25 catches it.
AllocFails ==
    /\ stressor.kind = "memory" /\ stressor.pc = "alloc"
    /\ stressor.blocks < stressor.size
    /\ stressor' = [stressor EXCEPT
                      !.failed_at = stressor.blocks + 1,
                      !.blocks = BlocksAfterFailure(@),
                      !.pc = "report"]
    /\ UNCHANGED now
    /\ ParentUnchanged

\* print("[!] MemoryError ...") / print("[!] Disk stress error ..."), then
\* `while True: time.sleep(1)`   (lines 26-28, 38-40).
ReportFailure ==
    /\ stressor.kind \in {"memory", "disk"} /\ stressor.pc = "report"
    /\ stressor' = [stressor EXCEPT !.printed = TRUE, !.pc = "hold"]
    /\ UNCHANGED now
    /\ ParentUnchanged

\* ---- burn_disk (lines 30-40)
\* open(path, 'wb') succeeds (line 32).
BurnDiskOpen ==
    /\ stressor.kind = "disk" /\ stressor.pc = "open"
    /\ Goto("write")

\* f.write(1 GiB) succeeds (lines 33-34); after the last block the file is
\* closed and the worker sleeps for ever (lines 35-36).
BurnDiskWrite ==
    /\ stressor.kind = "disk" /\ stressor.pc = "write"
    /\ stressor.blocks < stressor.size
    /\ stressor' = [stressor EXCEPT
                      !.blocks = @ + 1,
                      !.pc = IF stressor.blocks + 1 = stressor.size
                               THEN "hold" ELSE "write"]
    /\ UNCHANGED now
    /\ ParentUnchanged

\* open or write raises (OSError: no such directory, disk full, ...); the
\* except clause of line 37 catches it.
BurnDiskFails ==
    /\ stressor.kind = "disk" /\ stressor.pc \in {"open", "write"}
    /\ stressor' = [stressor EXCEPT
                      !.failed_at = stressor.blocks + 1,
                      !.pc = "report"]
    /\ UNCHANGED now
    /\ ParentUnchanged

\* GiB that burn_disk has read back from the file after writing: the file is
\* opened write-only ('wb', line 32) and nothing in lines 30-40 reads it.
BlocksReadBack(w) == 0

\* ---- burn_network (lines 42-48)
\* end_time = time.time() + duration   (line 43)
NetStart ==
    /\ stressor.kind = "network" /\ stressor.pc = "net_start"
    /\ stressor' = [stressor EXCEPT !.end_time = now + stressor.duration,
                                    !.pc = "check"]
    /\ UNCHANGED now
    /\ ParentUnchanged

\* `while time.time() < end_time:` (line 44), then requests.get(url) is
\* called (line 46); the function returns when the test fails.
NetCheck ==
    /\ stressor.kind = "network" /\ stressor.pc = "check"
    /\ stressor' = IF now < stressor.end_time
                     THEN [stressor EXCEPT !.pc = "request", !.sent_at = now]
                     ELSE [stressor EXCEPT !.pc = "returned"]
    /\ UNCHANGED now
    /\ ParentUnchanged

\* requests.get(url) has no timeout argument (line 46): it returns or raises
\* only when the server, or the network, reacts.  A round trip takes time.
RequestEnds ==
    /\ stressor.kind = "network" /\ stressor.pc = "request"
    /\ stressor.target = "flaky" /\ now > stressor.sent_at

\* requests.get(url) returns a response (line 46).
RequestOk ==
    /\ RequestEnds
    /\ Goto("check")

\* Mutant: no except clause, the exception ends the worker.
AfterRequestFailure_Raises == "raised"

\* `except Exception: pass`   (lines 47-48): on to the loop test.
AfterRequestFailure == "check"

\* requests.get(url) raises (connection refused, DNS failure, ...): a
\* requests.RequestException, which is an Exception.
RequestFails ==
    /\ RequestEnds
    /\ stressor' = [stressor EXCEPT !.failures = @ + 1,
                                    !.pc = AfterRequestFailure]
    /\ UNCHANGED now
    /\ ParentUnchanged

\* The number of failed requests that burn_network keeps: it has no counter,
\* the except clause discards the exception (lines 47-48) and the function
\* returns None.
FailuresKept(w) == 0

\* ---- burn_gpu (lines 50-99)
\* Without pycuda: print and `while True: time.sleep(1)`   (lines 52-55).
\* With pycuda: on to the try block (line 58).
GpuStart ==
    /\ stressor.kind = "gpu" /\ stressor.pc = "gpu_start"
    /\ stressor' = IF stressor.has_pycuda
                     THEN [stressor EXCEPT !.pc = "construct"]
                     ELSE [stressor EXCEPT !.printed = TRUE, !.pc = "hold"]
    /\ UNCHANGED now
    /\ ParentUnchanged

\* The steps of the try block that succeed: GPUBenchmark() (lines 59-60),
\* benchmark_memory_throughput (line 64) followed by end_time (line 68),
\* benchmark_concurrency (line 77) followed by the return.
GpuBenchStep ==
    /\ stressor.kind = "gpu"
    /\ \/ /\ stressor.pc = "construct"
          /\ stressor' = [stressor EXCEPT !.pc = "throughput"]
       \/ /\ stressor.pc = "throughput"
          /\ stressor' = [stressor EXCEPT !.pc = "compute",
                                          !.end_time = now + stressor.duration]
       \/ /\ stressor.pc = "compute" /\ now >= stressor.end_time
          /\ stressor' = [stressor EXCEPT !.pc = "concurrency"]
       \/ /\ stressor.pc = "concurrency"
          /\ stressor' = [stressor EXCEPT !.pc = "returned"]
    /\ UNCHANGED now
    /\ ParentUnchanged

\* One iteration of the compute loop (lines 70-74); it takes a second.
GpuCompute ==
    /\ stressor.kind = "gpu" /\ stressor.pc = "compute"
    /\ now < stressor.end_time
    /\ now' = now + 1
    /\ UNCHANGED stressor
    /\ ParentUnchanged

\* The import, the construction or a benchmark call raises (lines 59-77); the
\* except clause of line 80 prints the error (line 81) and goes on to the
\* fallback kernel.
GpuBenchFails ==
    /\ stressor.kind = "gpu"
    /\ \/ stressor.pc \in {"construct", "throughput", "concurrency"}
       \/ stressor.pc = "compute" /\ now < stressor.end_time
    /\ stressor' = [stressor EXCEPT !.printed = TRUE, !.failed_at = 1,
                                    !.pc = "fb_compile"]
    /\ UNCHANGED now
    /\ ParentUnchanged

\* The steps of the fallback that succeed: SourceModule / get_function
\* (lines 91-92), mem_alloc / memcpy_htod followed by end_time (lines 93-96),
\* mem_free (line 99) followed by the return.
GpuFallbackStep ==
    /\ stressor.kind = "gpu"
    /\ \/ /\ stressor.pc = "fb_compile"
          /\ stressor' = [stressor EXCEPT !.pc = "fb_alloc"]
       \/ /\ stressor.pc = "fb_alloc"
          /\ stressor' = [stressor EXCEPT !.pc = "fb_loop",
                                          !.blocks = 1,
                                          !.end_time = now + stressor.duration]
       \/ /\ stressor.pc = "fb_loop" /\ now >= stressor.end_time
          /\ stressor' = [stressor EXCEPT !.pc = "fb_free"]
       \/ /\ stressor.pc = "fb_free"
          /\ stressor' = [stressor EXCEPT !.pc = "returned", !.blocks = 0]
    /\ UNCHANGED now
    /\ ParentUnchanged

\* One kernel launch of the fallback loop (lines 97-98); it takes a second.
GpuFallbackBurn ==
    /\ stressor.kind = "gpu" /\ stressor.pc = "fb_loop"
    /\ now < stressor.end_time
    /\ now' = now + 1
    /\ UNCHANGED stressor
    /\ ParentUnchanged

\* A device operation of the fallback raises (lines 91-99).  The fallback is
\* inside the except clause, where nothing catches it: the exception leaves
\* burn_gpu and ends the worker process.
GpuFallbackFails ==
    /\ stressor.kind = "gpu"
    /\ stressor.pc \in {"fb_compile", "fb_alloc", "fb_loop", "fb_free"}
    /\ Goto("raised")

\* ---- time
\* A second passes while the worker is blocked: in time.sleep(1) of one of the
\* endless loops (lines 24, 28, 36, 40, 55) or in requests.get (line 46).
\* The runs are followed up to MaxOverrun seconds past the duration.
StressorTick ==
    /\ stressor.pc \in {"hold", "request"}
    /\ now < stressor.duration + MaxOverrun
    /\ now' = now + 1
    /\ UNCHANGED stressor
    /\ ParentUnchanged

NextStressor ==
    \/ AllocBlock \/ AllocFails \/ ReportFailure
    \/ BurnDiskOpen \/ BurnDiskWrite \/ BurnDiskFails
    \/ NetStart \/ NetCheck \/ RequestOk \/ RequestFails
    \/ GpuStart \/ GpuBenchStep \/ GpuCompute \/ GpuBenchFails
    \/ GpuFallbackStep \/ GpuFallbackBurn \/ GpuFallbackFails
    \/ StressorTick

SpecStressor == InitStressor /\ [][NextStressor]_vars

\* The same runs when the worker keeps running as long as it can and time
\* keeps passing.
FairSpecStressor == SpecStressor /\ WF_vars(NextStressor)

\* ------------------------------------------------ single calls: parse_size
\* One call of a function of the program looked at on its own: `call` holds
\* its arguments, its position, its locals and its outcome.  main() and the
\* monitor are not running in these runs.

\* The state of everything but `call` during a single call.
NoProgram ==
    /\ cfg = [cpu_workers |-> 0, mem_gb |-> 0, disk_gb |-> 0,
              network_url |-> FALSE, gpu |-> FALSE,
              duration |-> 1, monitor_interval |-> 1]
    /\ pc = "call" /\ stack = <<>> /\ exc = "none"
    /\ procs = <<>> /\ appended = 0
    /\ temp_disk_file = FALSE /\ fileExists = FALSE
    /\ stop_event = FALSE /\ mon_stop_event = FALSE
    /\ tpc = "idle" /\ wakeAt = 0 /\ stats = <<>> /\ now = 0
    /\ reported = FALSE
    /\ signals = 0 /\ firstSig = NoSignal
    /\ cleanupCalls = 0 /\ cleanupReturns = 0
    /\ lenAtSet = -1 /\ stopSetAt = -1
    /\ graph = "none" /\ readBeforeStop = FALSE
    /\ samplerFailed = FALSE /\ stressor = NoStressor

\* A step of a single call changes nothing but `call`.
CallOnly ==
    /\ UNCHANGED <<cfg, pc, stack, exc, stop_event, reported, now,
                   samplerFailed, stressor>>
    /\ UNCHANGED monitorVars
    /\ UNCHANGED workerVars
    /\ UNCHANGED historyVars
    /\ UNCHANGED graphVars

\* A text is a sequence of characters (one-character strings).
DigitChars == <<"0", "1", "2", "3", "4", "5", "6", "7", "8", "9">>

\* str(n) of a non-negative integer: the text the user types for n.
RECURSIVE Decimal(_)
Decimal(n) ==
    IF n < Len(DigitChars) THEN <<DigitChars[n + 1]>>
    ELSE Decimal(n \div Len(DigitChars)) \o <<DigitChars[(n % Len(DigitChars)) + 1]>>

\* The value of a text of digits; 0 for the empty text.
RECURSIVE NatOf(_)
NatOf(s) ==
    IF s = <<>> THEN 0
    ELSE NatOf(SubSeq(s, 1, Len(s) - 1)) * Len(DigitChars)
         + (CHOOSE i \in 1..Len(DigitChars) : DigitChars[i] = s[Len(s)]) - 1

RECURSIVE Pow10(_)
Pow10(k) == IF k = 0 THEN 1 ELSE Len(DigitChars) * Pow10(k - 1)

IsDigits(s) == \A i \in 1..Len(s) : \E d \in 1..Len(DigitChars) : DigitChars[d] = s[i]

\* str.strip(): leading and trailing white space removed.
RECURSIVE Strip(_)
Strip(s) ==
    IF s # <<>> /\ s[1] = " " THEN Strip(Tail(s))
    ELSE IF s # <<>> /\ s[Len(s)] = " " THEN Strip(SubSeq(s, 1, Len(s) - 1))
    ELSE s

\* Mutant: the text is compared as typed, without upper().
Upper_AsTyped(c) == c

\* str.upper() on one character of the alphabet explored.
Upper(c) ==
    CASE c = "g" -> "G"
      [] c = "m" -> "M"
      [] c = "b" -> "B"
      [] c = "k" -> "K"
      [] OTHER -> c

EndsWith(s, suffix) ==
    /\ Len(s) >= Len(suffix)
    /\ SubSeq(s, Len(s) - Len(suffix) + 1, Len(s)) = suffix

\* float(text) for the texts of the alphabet explored (digits, one point, a
\* sign, white space around): the number is sign * num / den, or the call
\* raises ValueError.  Exponents, "inf", "nan" and underscores are outside
\* the alphabet.
Float(text) ==
    LET t      == Strip(text)
        signed == t # <<>> /\ t[1] \in {"-", "+"}
        neg    == t # <<>> /\ t[1] = "-"
        body   == IF signed THEN Tail(t) ELSE t
        dots   == {i \in 1..Len(body) : body[i] = "."}
        d      == IF dots = {} THEN Len(body) + 1
                  ELSE CHOOSE i \in dots : \A j \in dots : i <= j
        ip     == SubSeq(body, 1, d - 1)
        fp     == SubSeq(body, d + 1, Len(body))
    IN  IF IsDigits(ip) /\ IsDigits(fp) /\ Len(ip) + Len(fp) > 0
        THEN [ok |-> TRUE, neg |-> neg, num |-> NatOf(ip \o fp), den |-> Pow10(Len(fp))]
        ELSE [ok |-> FALSE, neg |-> neg, num |-> 0, den |-> 1]

\* The outcome of return int(float(text) / divisor): int() cuts the quotient
\* towards zero.
Converted(c, text, divisor) ==
    LET x == Float(text)
        q == x.num \div (x.den * divisor)
    IN  IF x.ok THEN [c EXCEPT !.pc = "returned", !.value = IF x.neg THEN 0 - q ELSE q]
        ELSE [c EXCEPT !.pc = "raised", !.exc = "ValueError"]

\* The size numbers typed: whole GB up to MaxGb, the MB counts around each
\* whole GB, and half a GB in MB.
SizeNumbers ==
    (0..MaxGb)
    \cup {MbPerGb * k + d : k \in 1..MaxGb, d \in {-1, 0, 1}}
    \cup {MbPerGb \div 2}

\* Every spelling of GB and G, and no unit at all.
GbUnits ==
    {<<>>}
    \cup {<<g, b>> : g \in {"G", "g"}, b \in {"B", "b"}}
    \cup {<<g>> : g \in {"G", "g"}}

\* Every spelling of MB and M.
MbUnits ==
    {<<m, b>> : m \in {"M", "m"}, b \in {"B", "b"}}
    \cup {<<m>> : m \in {"M", "m"}}

Pads == {<<>>, <<" ">>}

\* The size texts typed: white space, a number part (the size numbers in
\* decimal, a fraction, a negative number, texts that are no number), a unit
\* part (the units above and two other units), white space.
SizeTexts ==
    {l \o n \o u \o r :
        l \in Pads,
        n \in {Decimal(k) : k \in SizeNumbers}
               \cup {<<"1", ".", "5">>, <<".", "5">>, <<"2", ".">>, <<"-", "1">>, <<>>, <<".">>},
        u \in GbUnits \cup MbUnits \cup {<<"K", "B">>, <<"B">>},
        r \in Pads}

\* parse_size, lines 23-34.
parse_size ==
    /\ call.fn = "parse_size" /\ call.pc = "call"
    /\ LET t == Strip(call.size_str)
           s == [i \in 1..Len(t) |-> Upper(t[i])]
       IN  call' =
             IF EndsWith(s, <<"G", "B">>) THEN Converted(call, SubSeq(s, 1, Len(s) - 2), 1)
             ELSE IF EndsWith(s, <<"G">>) THEN Converted(call, SubSeq(s, 1, Len(s) - 1), 1)
             ELSE IF EndsWith(s, <<"M", "B">>) THEN Converted(call, SubSeq(s, 1, Len(s) - 2), MbPerGb)
             ELSE IF EndsWith(s, <<"M">>) THEN Converted(call, SubSeq(s, 1, Len(s) - 1), MbPerGb)
             ELSE Converted(call, s, 1)
    /\ CallOnly

\* parse_size(size_str) about to run, for every size text.
InitParse ==
    /\ NoProgram
    /\ call \in {[fn |-> "parse_size", pc |-> "call", size_str |-> t,
                  value |-> 0, exc |-> "none"] : t \in SizeTexts}

NextParse == parse_size

SpecParse == InitParse /\ [][NextParse]_vars

\* ------------------------------------------------ single calls: the exports
\* Monitor.export_csv / Monitor.export_json on a log of samples, followed by
\* a reader of the file.  A file is absent, or holds lines of text (CSV) or
\* objects of key / literal pairs (JSON).

FieldNames == <<"time", "cpu", "ram", "disk", "net_sent", "net_recv">>

\* time.strftime('%H:%M:%S') at second t (line 23).
TimeText(t) ==
    LET TwoDigits(k) == <<DigitChars[(k \div 10) + 1], DigitChars[(k % 10) + 1]>>
    IN  TwoDigits(Clock(t) \div 3600) \o <<":">>
        \o TwoDigits((Clock(t) \div 60) % 60) \o <<":">>
        \o TwoDigits(Clock(t) % 60)

\* One sample of the log (lines 22-29): percentages as psutil gives them,
\* floats with one decimal, here p tenths; counters b and b + 1.
MkSample(t, p, b) ==
    LET pct == [ok |-> TRUE, neg |-> FALSE, num |-> p, den |-> 10]
    IN  [time |-> TimeText(t), cpu |-> pct, ram |-> pct, disk |-> pct,
         net_sent |-> b, net_recv |-> b + 1]

SampleValues ==
    {MkSample(0, 0, 0), MkSample(1, 125, MbPerGb),
     MkSample(SecondsPerDay - 1, 1000, 1)}

\* The logs of k samples.
RECURSIVE LogsOfLength(_)
LogsOfLength(k) ==
    IF k = 0 THEN {<<>>}
    ELSE {Append(l, s) : l \in LogsOfLength(k - 1), s \in SampleValues}

\* The text written for field k of sample s: str(value); a float with one
\* decimal is written with its point.
FieldText(s, k) ==
    CASE k = "time" -> s.time
      [] k \in {"cpu", "ram", "disk"} ->
            Decimal(s[k].num \div s[k].den) \o <<".">> \o Decimal(s[k].num % s[k].den)
      [] OTHER -> Decimal(s[k])

RECURSIVE Join(_, _)
Join(texts, sep) ==
    IF texts = <<>> THEN <<>>
    ELSE IF Len(texts) = 1 THEN texts[1]
    ELSE texts[1] \o <<sep>> \o Join(Tail(texts), sep)

\* The fields of a line: the line cut at every separator.
RECURSIVE Split(_, _)
Split(text, sep) ==
    LET seps == {i \in 1..Len(text) : text[i] = sep}
    IN  IF seps = {} THEN <<text>>
        ELSE LET i == CHOOSE j \in seps : \A k \in seps : j <= k
             IN  <<SubSeq(text, 1, i - 1)>> \o Split(SubSeq(text, i + 1, Len(text)), sep)

\* The file csv.DictWriter produces (lines 43-46): one header line of the
\* keys of the first sample, one line per sample: the texts of its fields
\* with commas between.
CsvFile(log) ==
    [kind |-> "csv",
     header |-> FieldNames,
     lines |-> [i \in 1..Len(log) |->
                  Join([k \in 1..Len(FieldNames) |-> FieldText(log[i], FieldNames[k])], ",")]]

\* The file json.dump(self.stats, f, indent=2) produces (lines 49-50): per
\* sample an object of keys and literals, a text in quotes, a number as str().
JsonFile(log) ==
    [kind |-> "json",
     objects |-> [i \in 1..Len(log) |->
                     [k \in 1..Len(FieldNames) |->
                         <<FieldNames[k],
                           IF FieldNames[k] = "time"
                             THEN <<"\"">> \o log[i].time \o <<"\"">>
                             ELSE FieldText(log[i], FieldNames[k])>>]]]

AbsentFile == [kind |-> "absent"]

\* The value a reader gets from the text of field k.
FieldValue(k, text) ==
    CASE k = "time" -> text
      [] k \in {"cpu", "ram", "disk"} -> Float(text)
      [] OTHER -> NatOf(text)

\* The value a JSON reader gets from a literal.
JsonValue(literal) ==
    IF literal # <<>> /\ literal[1] = "\"" THEN SubSeq(literal, 2, Len(literal) - 1)
    ELSE IF \E i \in 1..Len(literal) : literal[i] = "." THEN Float(literal)
    ELSE NatOf(literal)

\* The records a reader of the file gets: from a CSV file one record per
\* line, its fields cut at the commas and named by the header; from a JSON
\* file one record per object.
Records(file) ==
    IF file.kind = "csv"
    THEN [n \in 1..Len(file.lines) |->
            [k \in {file.header[i] : i \in 1..Len(file.header)} |->
                LET i == CHOOSE j \in 1..Len(file.header) : file.header[j] = k
                IN  FieldValue(k, Split(file.lines[n], ",")[i])]]
    ELSE [n \in 1..Len(file.objects) |->
            [k \in {file.objects[n][i][1] : i \in 1..Len(file.objects[n])} |->
                LET i == CHOOSE j \in 1..Len(file.objects[n]) : file.objects[n][j][1] = k
                IN  JsonValue(file.objects[n][i][2])]]

\* An export of the log about to run; `file` is what the file name holds
\* before: nothing, or the export of an earlier run.
NewExport(format, log, file) ==
    [fn |-> "export", pc |-> "call", format |-> format, stats |-> log,
     file |-> file, records |-> <<>>]

\* What the file name holds after export_csv: lines 41-42 return before the
\* file is opened when the log is empty.
CsvWritten(log, file) == IF log = <<>> THEN file ELSE CsvFile(log)

\* Monitor.export_csv, lines 40-46.
export_csv ==
    /\ call.fn = "export" /\ call.pc = "call" /\ call.format = "csv"
    /\ call' = [call EXCEPT !.pc = "exported",
                            !.file = CsvWritten(call.stats, call.file)]
    /\ CallOnly

\* Monitor.export_json, lines 48-50.
export_json ==
    /\ call.fn = "export" /\ call.pc = "call" /\ call.format = "json"
    /\ call' = [call EXCEPT !.pc = "exported", !.file = JsonFile(call.stats)]
    /\ CallOnly

\* The exported file is read back.
ReadBack ==
    /\ call.fn = "export" /\ call.pc = "exported"
    /\ call' = IF call.file = AbsentFile
               THEN [call EXCEPT !.pc = "no_file"]
               ELSE [call EXCEPT !.pc = "read", !.records = Records(call.file)]
    /\ CallOnly

InitExport ==
    /\ NoProgram
    /\ call \in {NewExport(f, log, old) :
                    f \in {"csv", "json"},
                    log \in UNION {LogsOfLength(k) : k \in 0..MaxSamples},
                    old \in {AbsentFile, CsvFile(<<MkSample(0, 0, 0)>>)}}

NextExport == export_csv \/ export_json \/ ReadBack

SpecExport == InitExport /\ [][NextExport]_vars

\* ------------------------------------------ single calls: GPUBenchmark()
\* The construction of a GPUBenchmark (gpu_benchmark.py, lines 21-64) on a
\* host where PyCUDA is importable or not and any of the PTX files may be
\* missing from the build directory.

\* The PTX files in the order _load_kernels loads them (lines 31, 44, 56).
PtxFiles == <<"memory_throughput.ptx", "compute_intensive.ptx", "concurrency.ptx">>

\* The kernels looked up in each module (lines 39-41, 52-53, 64).
Kernels ==
    <<<<"memory_copy_kernel", "memory_bandwidth_kernel", "concurrent_memory_kernel">>,
      <<"matrix_multiply_kernel", "mandelbrot_kernel">>,
      <<"concurrent_stream_kernel">>>>

AllModules == {PtxFiles[k] : k \in 1..Len(PtxFiles)}

AllKernels == UNION {{Kernels[k][j] : j \in 1..Len(Kernels[k])} : k \in 1..Len(Kernels)}

\* GPUBenchmark() about to run: `present` are the PTX files in build/.
NewConstruction(has_pycuda, present) ==
    [fn |-> "GPUBenchmark", pc |-> "init", has_pycuda |-> has_pycuda,
     present |-> present, k |-> 1, j |-> 1,
     modules |-> {}, functions |-> {}, exc |-> "none", named |-> "none"]

\* After the last lookup in module k: the next module, or __init__ returns.
NextModule(c) ==
    IF c.k < Len(PtxFiles)
      THEN [c EXCEPT !.pc = "exists", !.k = @ + 1, !.j = 1]
      ELSE [c EXCEPT !.pc = "returned"]

\* Mutant: a missing PTX file is skipped.
WhenMissing_Skips(c) == NextModule(c)

\* The PTX file of module k is missing: lines 33-35, 46-48, 58-60.
WhenMissing(c) ==
    [c EXCEPT !.pc = "raised", !.exc = "FileNotFoundError", !.named = PtxFiles[c.k]]

\* __init__, lines 22-26.
GpuBenchmarkInit ==
    /\ call.fn = "GPUBenchmark" /\ call.pc = "init"
    /\ call' = IF call.has_pycuda
               THEN [call EXCEPT !.pc = "exists"]
               ELSE [call EXCEPT !.pc = "raised", !.exc = "RuntimeError"]
    /\ CallOnly

\* `if not os.path.exists(path): raise FileNotFoundError(...)`, then the file
\* is read (lines 32-37, 45-50, 57-62).
KernelExists ==
    /\ call.fn = "GPUBenchmark" /\ call.pc = "exists"
    /\ call' = IF PtxFiles[call.k] \in call.present
               THEN [call EXCEPT !.pc = "compile"]
               ELSE WhenMissing(call)
    /\ CallOnly

\* SourceModule(ptx) returns the module (lines 38, 51, 63).
ModuleLoaded ==
    /\ call.fn = "GPUBenchmark" /\ call.pc = "compile"
    /\ call' = [call EXCEPT !.pc = "get", !.modules = @ \cup {PtxFiles[call.k]}]
    /\ CallOnly

\* SourceModule(ptx) raises: the text does not compile.
ModuleFails ==
    /\ call.fn = "GPUBenchmark" /\ call.pc = "compile"
    /\ call' = [call EXCEPT !.pc = "raised", !.exc = "CompileError"]
    /\ CallOnly

\* get_function(name) returns the handle (lines 39-41, 52-53, 64).
FunctionFound ==
    /\ call.fn = "GPUBenchmark" /\ call.pc = "get"
    /\ LET c == [call EXCEPT !.functions = @ \cup {Kernels[call.k][call.j]}]
       IN  call' = IF call.j < Len(Kernels[call.k])
                   THEN [c EXCEPT !.j = @ + 1]
                   ELSE NextModule(c)
    /\ CallOnly

\* get_function(name) raises: the module has no such kernel.
FunctionMissing ==
    /\ call.fn = "GPUBenchmark" /\ call.pc = "get"
    /\ call' = [call EXCEPT !.pc = "raised", !.exc = "LogicError"]
    /\ CallOnly

InitConstruction ==
    /\ NoProgram
    /\ call \in {NewConstruction(h, present) :
                    h \in BOOLEAN, present \in SUBSET AllModules}

\* ------------------------------------- single calls: GPUBenchmark operations
\* The operations of a constructed GPUBenchmark (gpu_benchmark.py, lines
\* 66-234).  Each allocates its device buffers, runs its kernels and frees
\* the buffers; a CUDA call may raise at any point (out of device memory, a
\* failed launch).

\* The device buffers an operation allocates: device_src and device_dst
\* (lines 77-78); A_gpu, B_gpu, C_gpu (lines 119-121); one per stream (line
\* 171); output_gpu (line 208).
OperationBuffers ==
    [benchmark_memory_throughput |-> {2},
     benchmark_compute_performance |-> {3},
     benchmark_concurrency |-> 1..MaxStreams,
     thermal_stress_test |-> {1}]

Operations == DOMAIN OperationBuffers

\* An operation about to run its first statement.
NewOperation(fn, needed, duration) ==
    [fn |-> fn, pc |-> "alloc", needed |-> needed, allocated |-> 0,
     duration |-> duration, elapsed |-> 0, iteration |-> 0,
     performance_samples |-> <<>>, exc |-> "none"]

\* The calls a caller of the object makes: thermal_stress_test with a
\* duration in seconds, the benchmarks with their sizes.
OperationCalls ==
    UNION {{NewOperation(fn, n, d) :
               n \in OperationBuffers[fn],
               d \in (IF fn = "thermal_stress_test" THEN 1..MaxDuration ELSE {0})} :
           fn \in Operations}

\* The caller calls an operation of the object it has constructed.
CallOperation ==
    /\ call.fn = "GPUBenchmark" /\ call.pc = "returned"
    /\ call' \in OperationCalls
    /\ CallOnly

\* cuda.mem_alloc returns a buffer (lines 77-78, 119-121, 171, 208).
DeviceAlloc ==
    /\ call.fn \in Operations /\ call.pc = "alloc"
    /\ call' = [call EXCEPT !.allocated = @ + 1,
                            !.pc = IF call.allocated + 1 = call.needed
                                     THEN "run" ELSE "alloc"]
    /\ CallOnly

\* A CUDA call raises: no operation has a try block, so the exception leaves
\* the operation at once and the free() calls at its end are not executed.
AfterCudaError(c) == [c EXCEPT !.pc = "raised", !.exc = "cuda.Error"]

\* cuda.mem_alloc raises (out of device memory).
DeviceAllocFails ==
    /\ call.fn \in Operations /\ call.pc = "alloc"
    /\ call' = AfterCudaError(call)
    /\ CallOnly

\* The copies, the warm-up and the timed kernels of the three benchmarks run
\* (lines 81-98, 123-147, 177-190).
KernelsRun ==
    /\ call.fn \in Operations \ {"thermal_stress_test"} /\ call.pc = "run"
    /\ call' = [call EXCEPT !.pc = "free"]
    /\ CallOnly

\* A copy, a kernel launch or a synchronize raises.
KernelFails ==
    /\ call.fn \in Operations /\ call.pc = "run"
    /\ call' = AfterCudaError(call)
    /\ CallOnly

\* Mutant: the sample is taken on the iteration after every 10th.
SampleDue_After(iteration) == iteration % SampleEvery = 1

\* `if iteration % 10 == 0:` (line 226).
SampleDue(iteration) == iteration % SampleEvery = 0

\* One pass of the loop of thermal_stress_test (lines 217-231): the kernel
\* takes dt seconds.  Kernels that take no measurable time are counted up to
\* MaxIterations.
ThermalIteration(dt) ==
    /\ call.fn = "thermal_stress_test" /\ call.pc = "run"
    /\ call.elapsed < call.duration
    /\ dt = 0 => call.iteration < MaxIterations
    /\ call' = [call EXCEPT
                  !.iteration = @ + 1,
                  !.elapsed = @ + dt,
                  !.performance_samples =
                      IF SampleDue(call.iteration + 1)
                        THEN Append(@, [time |-> call.elapsed + dt,
                                        iter_time |-> dt,
                                        iteration |-> call.iteration + 1])
                        ELSE @]
    /\ CallOnly

\* The loop condition of line 217 is false: the loop is left.
ThermalDone ==
    /\ call.fn = "thermal_stress_test" /\ call.pc = "run"
    /\ call.elapsed >= call.duration
    /\ call' = [call EXCEPT !.pc = "free"]
    /\ CallOnly

\* buffer.free() (lines 101-102, 149-151, 193-194, 233); after the last one
\* the operation returns.
DeviceFree ==
    /\ call.fn \in Operations /\ call.pc = "free"
    /\ call' = [call EXCEPT !.allocated = @ - 1,
                            !.pc = IF call.allocated = 1 THEN "returned" ELSE "free"]
    /\ CallOnly

\* After the operation has raised: once the caller has dropped the exception
\* and its traceback, nothing refers to the buffers any more and PyCUDA frees
\* them as the objects are destroyed.
BuffersCollected ==
    /\ call.fn \in Operations /\ call.pc = "raised"
    /\ call' = [call EXCEPT !.pc = "dropped", !.allocated = 0]
    /\ CallOnly

NextGpuBenchmark ==
    \/ GpuBenchmarkInit \/ KernelExists
    \/ ModuleLoaded \/ ModuleFails
    \/ FunctionFound \/ FunctionMissing
    \/ CallOperation
    \/ DeviceAlloc \/ DeviceAllocFails
    \/ KernelsRun \/ KernelFails
    \/ (\E dt \in {0, 1} : ThermalIteration(dt)) \/ ThermalDone
    \/ DeviceFree
    \/ BuffersCollected

SpecGpuBenchmark == InitConstruction /\ [][NextGpuBenchmark]_vars

\* --------------------------------------- single calls: one sample, step by step
\* The body of the monitor loop (monitoring.py, lines 21-31) statement by
\* statement, while the network counters of the host move.  Each psutil call
\* is a reading of its own; `gen` numbers the states of the counters, and
\* `from` remembers which state each field of a sample was read from.

\* A packet leaves and its answer arrives: both counters of the host move.
Traffic ==
    /\ call.fn = "_monitor_loop"
    /\ call.counters.gen < MaxTraffic
    /\ call' = [call EXCEPT !.counters =
                    [gen |-> @.gen + 1,
                     bytes_sent |-> @.bytes_sent + 1,
                     bytes_recv |-> @.bytes_recv + 1]]
    /\ CallOnly

\* `while not self._stop_event.is_set():` (line 21), then the time and the
\* three percentages are read (lines 23-26).
SamplerCheck ==
    /\ call.fn = "_monitor_loop" /\ call.pc = "check"
    /\ Len(call.stats) < MaxSamples
    /\ call' = [call EXCEPT !.pc = "net_sent"]
    /\ CallOnly

\* 'net_sent': psutil.net_io_counters().bytes_sent (line 27).
ReadNetSent ==
    /\ call.fn = "_monitor_loop" /\ call.pc = "net_sent"
    /\ call' = [call EXCEPT !.pc = "net_recv",
                            !.stat.net_sent = call.counters.bytes_sent,
                            !.from.net_sent = call.counters.gen]
    /\ CallOnly

\* 'net_recv': psutil.net_io_counters().bytes_recv (line 28): a second call.
ReadNetRecv ==
    /\ call.fn = "_monitor_loop" /\ call.pc = "net_recv"
    /\ call' = [call EXCEPT !.pc = "append",
                            !.stat.net_recv = call.counters.bytes_recv,
                            !.from.net_recv = call.counters.gen]
    /\ CallOnly

\* self.stats.append(stat), then the sleep of one interval (lines 30-31).
SamplerAppend ==
    /\ call.fn = "_monitor_loop" /\ call.pc = "append"
    /\ call' = [call EXCEPT !.pc = "check",
                            !.stats = Append(@, call.stat),
                            !.sources = Append(@, call.from)]
    /\ CallOnly

\* _monitor_loop about to test its loop condition for the first time.
InitSampler ==
    /\ NoProgram
    /\ call =
      [fn |-> "_monitor_loop", pc |-> "check",
           counters |-> [gen |-> 0, bytes_sent |-> 0, bytes_recv |-> 0],
           stat |-> [net_sent |-> 0, net_recv |-> 0],
           from |-> [net_sent |-> 0, net_recv |-> 0],
           stats |-> <<>>, sources |-> <<>>]

NextSampler ==
    \/ Traffic
    \/ SamplerCheck \/ ReadNetSent \/ ReadNetRecv \/ SamplerAppend

SpecSampler == InitSampler /\ [][NextSampler]_vars

\* ================================================================== claims
Ended == pc \in {"atexit", "exited"}

\* C1: a single SIGINT/SIGTERM delivered while main waits for the duration
\* makes cleanup() execute exactly once in the run (the handler's call and the
\* finally block's call counted together), and no worker is sent terminate
\* more than once.
C1_CleanupExactlyOnce ==
    (signals = 1 /\ firstSig.pc = "sleep")
        => /\ cleanupCalls = 1
           /\ \A i \in 1..Len(procs) : procs[i].terms <= 1

\* C2: a signal that arrives while cleanup() is executing does not start
\* another execution of cleanup() on top of the running one.
C2_NoNestedCleanup == Len(stack) <= 1

\* C3: once a call of cleanup() has completed, a later call is a no-op: no
\* worker is sent a further terminate.
C3_SecondCleanupIsNoOp ==
    [][cleanupReturns >= 1
         => \A i \in 1..Len(procs) : procs'[i].terms = procs[i].terms]_vars

\* C4: when cleanup() has returned, no worker process is still alive.
C4_NoWorkerAliveAfterCleanup ==
    cleanupReturns >= 1 => \A i \in 1..Len(procs) : ~procs[i].alive

\* C5: once Monitor.stop() has returned, the metric log never changes again.
C5_NoAppendAfterStop == [][MonitorStopReturned => stats' = stats]_vars

\* C5 witness: a run in which Monitor.stop() returned with samples in the
\* log, followed to the program's exit.
C5_Witness ==
    /\ MonitorStopReturned /\ pc = "exited"
    /\ Len(stats) >= 2

\* C6 (as claimed): after an interrupt delivered mid-run the log stays what it
\* was at the instant of the interrupt.
C6_LogFrozenAtInterrupt ==
    firstSig.pc = "sleep" => Len(stats) = firstSig.len

\* C6 (amended): after an interrupt delivered mid-run, at most one sample is
\* appended once the handler's cleanup() has set the monitor's stop event (the
\* sample of the loop iteration that had already passed the stop check), and
\* the monitor thread has ended when Monitor.stop() has returned.
C6_AtMostInFlightSample ==
    firstSig.pc = "sleep"
        => /\ lenAtSet >= 0 => Len(stats) <= lenAtSet + 1
           /\ MonitorStopReturned => tpc = "done"

\* C6 witness: an interrupted run that ended with the in-flight sample in the log.
C6_Witness ==
    /\ firstSig.pc = "sleep" /\ pc = "exited"
    /\ Len(stats) = lenAtSet + 1
    /\ Len(stats) > firstSig.len

\* C7: a stop request that arrives during start-up (workers being spawned,
\* monitor not started) still runs cleanup() to completion: no error is
\* raised and every worker started so far is sent terminate.
C7_StartupStopCompletes ==
    (firstSig.pc = "spawn" /\ Ended)
        => /\ exc # "RuntimeError"
           /\ \A i \in 1..Len(procs) : procs[i].alive => procs[i].terms > 0

\* C8: within one execution of cleanup() the workers are stopped before the
\* monitor: no worker is alive while the monitor is being stopped.
C8_WorkersStoppedBeforeMonitor ==
    (stack # <<>> /\ Top.cpc \in {"monitor_stop", "monitor_join"})
        => \A i \in 1..Len(procs) : ~procs[i].alive

\* C9: whenever a disk worker was started, once cleanup() has returned and the
\* disk worker has exited, the scratch file does not exist.
C9_ScratchFileRemoved ==
    (/\ cleanupReturns >= 1
     /\ \E i \in 1..Len(procs) : procs[i].kind = "disk"
     /\ \A i \in 1..Len(procs) : procs[i].kind = "disk" => ~procs[i].alive)
        => ~fileExists

\* C10: the wait ends exactly when the duration has elapsed or an interrupt
\* has arrived, whichever is first, never because a worker ended; and on both
\* paths cleanup() is then called from the finally block.
C10_WaitEndsAtDeadlineOrInterrupt ==
    /\ [](pc = "sleep" /\ stack = <<>> => now <= cfg.duration)
    /\ [][(pc = "sleep" /\ pc' # "sleep")
            => /\ \/ stack = <<>> /\ now = cfg.duration
                  \/ stack # <<>> /\ Top.site = "handler" /\ signals > 0
               /\ pc' = "finally"
               /\ stack' = <<NewFrame("finally")>>
               /\ cleanupCalls' = cleanupCalls + 1]_vars

\* C10 witness: the wait ended at the deadline although a worker had ended on
\* its own before.
C10_Witness ==
    /\ pc = "finally" /\ signals = 0 /\ now = cfg.duration
    /\ \E i \in 1..Len(procs) : ~procs[i].alive /\ procs[i].terms = 0

\* The run reached the wait of line 126: no signal came before it.  (A signal
\* that finds main in start-up ends main() before the try block.)
ReachedWait == firstSig.pc \in {"none", "sleep", "finally", "report"}

\* C11: every run that reached the wait, however it ends (deadline or any
\* number of interrupts at any time), has produced the exports and the
\* summary when the program exits.
C11_ReportProduced == (pc = "exited" /\ ReachedWait) => reported

\* Number of worker processes of a kind that were started.
Started(kind) == Cardinality({i \in 1..Len(procs) : procs[i].kind = kind})

\* C12: when start-up is over (the monitor has been started), the workers
\* started are exactly cpu_workers CPU workers, one memory worker iff the
\* memory size is > 0, one disk worker iff the disk size is > 0, one network
\* worker iff a URL is set, one GPU worker iff --gpu is set, and no other.
C12_WorkersAsConfigured ==
    tpc # "idle"
        => /\ Started("cpu") = cfg.cpu_workers
           /\ Started("memory") = (IF cfg.mem_gb > 0 THEN 1 ELSE 0)
           /\ Started("disk") = (IF cfg.disk_gb > 0 THEN 1 ELSE 0)
           /\ Started("network") = (IF cfg.network_url THEN 1 ELSE 0)
           /\ Started("gpu") = (IF cfg.gpu THEN 1 ELSE 0)
           /\ \A i \in 1..Len(procs) :
                 procs[i].kind \in {"cpu", "memory", "disk", "network", "gpu"}
           /\ appended = Len(procs)

\* C12 witness: --cpu 2 with memory and disk size 0, no URL, no GPU: start-up
\* is over with exactly two workers.
C12_Witness ==
    /\ tpc # "idle" /\ Len(procs) = 2
    /\ cfg.cpu_workers = 2 /\ cfg.mem_gb = 0 /\ cfg.disk_gb = 0
    /\ ~cfg.network_url /\ ~cfg.gpu

\* C13: once the orchestrator has set the stop signal, a worker that has
\* ended has ended on its own: it was not sent terminate.
C13_WorkersExitOnStopSignal ==
    stop_event => \A i \in 1..Len(procs) : ~procs[i].alive => procs[i].terms = 0

\* C14: a worker is sent terminate only after the stop signal has been set
\* and time has passed since (the grace period in which it could stop on its
\* own).
C14_TerminateOnlyAfterGrace ==
    \A i \in 1..Len(procs) :
        procs[i].terms > 0 => (stopSetAt >= 0 /\ now > stopSetAt)

\* C15: under any sequence of start() and stop() calls a Monitor only moves
\* Idle -> Running -> Stopped: a thread that has ended stays ended, the
\* Monitor never becomes idle again, a sampling loop begins only on an idle
\* Monitor (so at most one loop ever runs), and start() on a running or
\* stopped Monitor raises an error and changes neither its state nor its log.
C15_MonitorOneWay ==
    [][/\ tpc = "done" => tpc' = "done"
       /\ tpc' = "idle" => tpc = "idle"
       /\ (tpc' = "check" /\ tpc # "check") => tpc = "idle"
       /\ (pc = "start" /\ pc' = "caller" /\ tpc # "idle")
            => /\ exc' = "RuntimeError"
               /\ UNCHANGED <<mon_stop_event, tpc, wakeAt, stats>>]_vars

\* C15 witness: start() has just failed on a Monitor that was started, took
\* samples and was stopped.
C15_Witness ==
    /\ pc = "caller" /\ exc = "RuntimeError"
    /\ tpc = "done" /\ Len(stats) >= 2

\* C16: the metric log is append-only with a single writer: every step leaves
\* the log unchanged or appends one entry at its end, the entry is the sample
\* taken in that step (it carries the clock reading of the step), and the
\* step is the monitor loop's sampling step.
C16_AppendOnlySingleWriter ==
    [][\/ stats' = stats
       \/ /\ stats' = Append(stats, [time |-> Clock(now)])
          /\ tpc = "sample" /\ tpc' = "sleep"]_vars

\* C16 witness: a log of three samples taken at three different times.
C16_Witness ==
    /\ Len(stats) >= 3
    /\ stats[1].time < stats[2].time /\ stats[2].time < stats[3].time

\* C17: for any two samples of the log, the recorded timestamp of the earlier
\* one is less than or equal to that of the later one, whatever the time of
\* day at which the Monitor was started.
C17_TimestampsNonDecreasing ==
    \A i, j \in 1..Len(stats) : i < j => stats[i].time <= stats[j].time

\* The run ended by the deadline and the finally block's cleanup() has returned.
EndedByDeadline == signals = 0 /\ pc \in {"report", "atexit", "exited"}

\* C18: a run of duration D and monitor interval I that ends by the deadline
\* leaves a log whose length differs from D / I by at most 1, that is
\* |length * I - D| <= I.
C18_LogLength ==
    EndedByDeadline
        => /\ Len(stats) * cfg.monitor_interval - cfg.duration <= cfg.monitor_interval
           /\ cfg.duration - Len(stats) * cfg.monitor_interval <= cfg.monitor_interval

\* C18 witness: a run to the deadline whose duration is a multiple of the
\* interval and in which the sample due at the deadline was still taken:
\* D / I + 1 samples.
C18_Witness ==
    /\ EndedByDeadline /\ pc = "exited"
    /\ cfg.duration = 2 * cfg.monitor_interval
    /\ Len(stats) = 3

\* C19: in a run that ends by the deadline the stop is over within one second
\* of the deadline (as in: duration 5, interval 1, finished by 6 seconds),
\* whatever the monitor interval is: when the finally block's cleanup() has
\* returned (every worker has been sent terminate), the clock reads at most
\* the duration plus one.
C19_StopLatencyIndependentOfInterval ==
    EndedByDeadline => now <= cfg.duration + 1

\* C20: every read of the metric log (CSV export, JSON export, summary, live
\* graph) happens after Monitor.stop() has returned.
C20_ReadsOnlyAfterStop == ~readBeforeStop

\* C21: a sampler call that fails does not end the monitor loop: as long as
\* the Monitor has not been told to stop, the loop is still there to sample on
\* the following ticks.
C21_SamplingContinuesAfterFailure ==
    (samplerFailed /\ ~mon_stop_event) => tpc # "done"

\* C22: when starting one worker has failed, main() does not end before it
\* has started the monitor and every other requested worker: a main() that
\* has ended has started the monitor and all but the failed worker.
C22_StartFailureIsolated ==
    (exc = "OSError" /\ Ended)
        => /\ tpc # "idle"
           /\ Len(procs) >= Len(Plan(cfg)) - 1

\* C23: a step in which a worker that was not sent terminate ends (it exits
\* or crashes) changes no other worker, leaves the monitor thread and its log
\* as they are, and leaves main() where it is (waiting, if it was waiting).
C23_WorkerExitIsolated ==
    [][\A i \in 1..Len(procs) :
         (procs[i].alive /\ ~procs'[i].alive /\ procs[i].terms = 0)
            => /\ \A j \in 1..Len(procs) : j # i => procs'[j] = procs[j]
               /\ UNCHANGED <<pc, stack, exc, stop_event, now>>
               /\ UNCHANGED monitorVars]_vars

\* C23 witness: main is waiting before the deadline, one worker has ended on
\* its own, another worker is alive and the monitor loop is running.
C23_Witness ==
    /\ pc = "sleep" /\ stack = <<>> /\ now < cfg.duration
    /\ tpc \in {"check", "sample", "sleep"}
    /\ \E i, j \in 1..Len(procs) :
          /\ ~procs[i].alive /\ procs[i].terms = 0
          /\ procs[j].alive

\* C24: when the allocation of the k-th block has failed in the memory worker,
\* the k-1 blocks allocated before are still held, the worker is alive (it has
\* neither returned nor died of the error), and once it is past the except
\* clause the failure has been printed.
C24_MemoryFailureKeepsBlocks ==
    (stressor.kind = "memory" /\ stressor.failed_at > 0)
        => /\ stressor.blocks = stressor.failed_at - 1
           /\ stressor.pc \in {"report", "hold"}
           /\ stressor.pc = "hold" => stressor.printed

\* C24 witness: the second block could not be allocated; a second later the
\* worker still sleeps with the first block held.
C24_Witness ==
    /\ stressor.kind = "memory" /\ stressor.failed_at = 2
    /\ stressor.blocks = 1 /\ stressor.pc = "hold" /\ now >= 1

\* C25: when the disk worker has written its data without an I/O error, all
\* of it has been read back for comparison.
C25_DiskDataReadBack ==
    (stressor.kind = "disk" /\ stressor.pc = "hold" /\ stressor.failed_at = 0)
        => BlocksReadBack(stressor) = stressor.blocks

\* C26: a GPU worker without GPU capability has ended as soon as it has
\* reported that: it is not alive a second later.
C26_GpuAbsentEndsWorker ==
    (stressor.kind = "gpu" /\ ~stressor.has_pycuda /\ now > 0)
        => stressor.pc = "returned"

\* C27: after a failure of the benchmark runner the GPU worker does no
\* further device work and no error escapes it: it never gets past the first
\* device operation of the fallback and never ends with an exception.
C27_GpuFailureEndsWorker ==
    stressor.kind = "gpu"
        => stressor.pc \notin {"fb_alloc", "fb_loop", "fb_free", "raised"}

\* C28: a failed request never ends the network worker: the step in which a
\* request fails takes the worker to its loop test, and from the loop test it
\* issues another request whenever the duration has not elapsed (and returns
\* otherwise).
C28_RequestFailureRetried ==
    [][stressor.kind = "network"
         => /\ stressor'.failures > stressor.failures
                => stressor'.pc = "check"
            /\ (stressor.pc = "check" /\ stressor'.pc # "check")
                => stressor'.pc = (IF now < stressor.end_time
                                     THEN "request" ELSE "returned")]_vars

\* C28 witness: a request is in flight after an earlier request has failed.
C28_Witness ==
    /\ stressor.kind = "network" /\ stressor.failures >= 1
    /\ stressor.pc = "request" /\ now < stressor.end_time

\* C29: the failure count the network worker keeps equals, at every point,
\* the number of its requests that have failed so far.
C29_FailureCountKept ==
    stressor.kind = "network" => FailuresKept(stressor) = stressor.failures

\* C30: the network worker terminates on its own, whatever the target does:
\* a started network worker eventually returns.
C30_NetworkWorkerTerminates ==
    (stressor.kind = "network") ~> (stressor.pc = "returned")

\* C31: some memory size below the largest size explored is a safety ceiling:
\* a configuration that asks for more memory than the ceiling starts no worker
\* and leaves the monitor thread unstarted.
C31_OversizedRequestRejected ==
    \E ceiling \in 0..(MaxGb - 1) :
        cfg.mem_gb > ceiling => procs = <<>> /\ tpc = "idle"

C39_NonZeroSizeStartsWorker ==
    (call.fn = "parse_size" /\ call.pc # "call")
        => \A n \in SizeNumbers \ {0}, l \in Pads, r \in Pads, u \in GbUnits \cup MbUnits :
              call.size_str = l \o Decimal(n) \o u \o r
                  => /\ call.pc = "returned" /\ call.value > 0
                     /\ \E i \in 1..Len(Plan([cfg EXCEPT !.mem_gb = call.value])) :
                           Plan([cfg EXCEPT !.mem_gb = call.value])[i] = "memory"

\* C32: a log of N >= 0 samples exported to CSV or to JSON and read back
\* gives exactly the N samples, in order, each with the fields time, cpu,
\* ram, disk, net_sent, net_recv holding the values of the sample.
C32_ExportRoundTrip ==
    (call.fn = "export" /\ call.pc \in {"read", "no_file"})
        => call.pc = "read" /\ call.records = call.stats

\* C34: a CPU or memory worker is alive at every moment from its start until
\* terminate() has been called on it, whatever the other workers, the monitor
\* and main() do meanwhile; once it was sent terminate and the program has
\* joined it, it is no longer alive.
C34_CpuMemoryWorkersStayAlive ==
    \A i \in 1..Len(procs) :
        procs[i].kind \in {"cpu", "memory"}
            => /\ procs[i].terms = 0 => procs[i].alive
               /\ (pc = "exited" /\ procs[i].terms > 0) => ~procs[i].alive

\* C34 witness: the program has exited; a CPU worker was terminated and
\* joined, after another worker had ended on its own beside it.
C34_Witness ==
    /\ pc = "exited"
    /\ \E i, j \in 1..Len(procs) :
          /\ procs[i].kind = "cpu" /\ procs[i].terms > 0 /\ ~procs[i].alive
          /\ procs[j].kind # "cpu" /\ procs[j].terms = 0 /\ ~procs[j].alive

C36_SampleEveryTenth ==
    call.fn = "thermal_stress_test"
        => /\ Len(call.performance_samples) = call.iteration \div SampleEvery
           /\ \A k \in 1..Len(call.performance_samples) :
                 /\ call.performance_samples[k].iteration = SampleEvery * k
                 /\ DOMAIN call.performance_samples[k] = {"time", "iter_time", "iteration"}
           /\ \A k \in 2..Len(call.performance_samples) :
                 /\ call.performance_samples[k - 1].iteration < call.performance_samples[k].iteration
                 /\ call.performance_samples[k - 1].time <= call.performance_samples[k].time

\* C36 witness: the test has returned its list after more than 20 iterations,
\* with two samples.
C36_Witness ==
    /\ call.fn = "thermal_stress_test" /\ call.pc = "returned"
    /\ call.iteration > 2 * SampleEvery
    /\ Len(call.performance_samples) = 2

\* C40: when an operation of GPUBenchmark has ended, by returning or by
\* raising, every device buffer it allocated has been freed.
C40_BuffersFreedAtEnd ==
    (call.fn \in Operations /\ call.pc \in {"returned", "raised"})
        => call.allocated = 0

\* C37: every sample of the log is taken from one snapshot of the host: its
\* net_sent and net_recv were read from the same state of the network
\* counters.
C37_SampleFromOneSnapshot ==
    call.fn = "_monitor_loop"
        => /\ Len(call.sources) = Len(call.stats)
           /\ \A k \in 1..Len(call.sources) :
                 call.sources[k].net_sent = call.sources[k].net_recv

\* C38: on every path out of main(), an exception during start-up included,
\* every worker that was started and is still running has been sent terminate
\* by the time main() has ended.
C38_WorkersTerminatedOnEveryExit ==
    Ended => \A i \in 1..Len(procs) : procs[i].alive => procs[i].terms > 0

====
